---- MODULE Spec2Model ----
(***************************************************************************)
(* Model of scripts/mggraph/utilities/msgraph_upn_lookup_cert.py:          *)
(* certificate loading, token acquisition, the per-name directory search   *)
(* loop, the classification of the results and the CSV export.             *)
(*                                                                         *)
(* Strings that the code joins and splits (names) are sequences of tokens  *)
(* in which " " is the space character and every other token is a run of   *)
(* non-space characters.  Files are described by what the cryptography     *)
(* parsers can find in them.                                               *)
(***************************************************************************)
EXTENDS Integers, Sequences, FiniteSets, TLC

VARIABLES pc, args, cert_data, error, access_token, tokenRequests,
          users_data, idx, results, queries,
          successful_lookups, multiple_matches, failed_lookups, csv

vars == <<pc, args, cert_data, error, access_token, tokenRequests,
          users_data, idx, results, queries,
          successful_lookups, multiple_matches, failed_lookups, csv>>

(* ------------------------------ bounds --------------------------------- *)

\* longest users_data (number of lines) that is explored
MaxLines == 3

\* most certificates in one file (leaf first, then chain certificates)
MaxChain == 2

(* --------------------------- string helpers ---------------------------- *)

SP == " "

RECURSIVE lstrip(_)
lstrip(s) == IF s # <<>> /\ Head(s) = SP THEN lstrip(Tail(s)) ELSE s

RECURSIVE rstrip(_)
rstrip(s) ==
    IF s # <<>> /\ s[Len(s)] = SP THEN rstrip(SubSeq(s, 1, Len(s) - 1)) ELSE s

\* str.strip()
strip(s) == rstrip(lstrip(s))

\* f"{first_name} {last_name}"
JoinName(first_name, last_name) == first_name \o <<SP>> \o last_name

\* position of the first space of s, 0 when there is none
RECURSIVE FindSpace(_, _)
FindSpace(s, k) ==
    IF k > Len(s) THEN 0 ELSE IF s[k] = SP THEN k ELSE FindSpace(s, k + 1)

\* name.split(' ', 1): the list of the parts around the first space
split_1(name) ==
    LET k == FindSpace(name, 1)
    IN  IF k = 0 THEN <<name>>
        ELSE <<SubSeq(name, 1, k - 1), SubSeq(name, k + 1, Len(name))>>

\* [p.strip() for p in line.split('|') if p.strip()]
RECURSIVE line_parts(_)
line_parts(fields) ==
    IF fields = <<>> THEN <<>>
    ELSE IF strip(Head(fields)) # <<>>
         THEN <<strip(Head(fields))>> \o line_parts(Tail(fields))
         ELSE line_parts(Tail(fields))

(* ------------------------- credential files ---------------------------- *)

SigAlgs == {"sha1", "sha256"}

\* hex length of certificate.fingerprint(alg).hex()
HexLen(alg) == IF alg = "sha1" THEN 40 ELSE 64

\* certificates of a file: the leaf (id 1) first, chain certificates after
CertLists ==
    { [j \in 1..n |-> [id |-> j, sig |-> IF j = 1 THEN s ELSE t]] :
        n \in 1..MaxChain, s \in SigAlgs, t \in {"sha256"} }

\* what a file holds: a PKCS#12 archive, a PEM file with a private key and
\* certificates, a PEM file of certificates, a PEM private key, or none of
\* these; protected = the private key (archive) is encrypted with a password
Files ==
    [kind : {"pfx", "pem_both"}, certs : CertLists, protected : BOOLEAN]
    \cup [kind : {"pem_cert"}, certs : CertLists, protected : {FALSE}]
    \cup [kind : {"pem_key"}, certs : {<<>>}, protected : BOOLEAN]
    \cup [kind : {"garbage"}, certs : {<<>>}, protected : {FALSE}]

NoFile == [kind |-> "absent", certs |-> <<>>, protected |-> FALSE]

\* cert_password: None (or ''), the password of the file, another password
Passwords == {"none", "right", "wrong"}

\* whether the parser can open a secret with the password it is given
PasswordOK(protected, password) ==
    IF protected THEN password = "right" ELSE password = "none"

NoCred ==
    [private_key |-> "", thumbprint |-> [alg |-> "", der |-> 0],
     public_certificate |-> 0]

Raise(kind) == [ok |-> FALSE, cred |-> NoCred, err |-> kind]

Return(cred) == [ok |-> TRUE, cred |-> cred, err |-> "none"]

\* x509.load_pem_x509_certificate: the first certificate block of the data
load_pem_x509_certificate(data) ==
    IF data.kind \in {"pem_cert", "pem_both"}
    THEN [ok |-> TRUE, cert |-> data.certs[1], err |-> "none"]
    ELSE [ok |-> FALSE, cert |-> [id |-> 0, sig |-> ""], err |-> "format"]

\* serialization.load_pem_private_key
load_pem_private_key(data, password) ==
    IF data.kind \notin {"pem_key", "pem_both"} THEN "format"
    ELSE IF ~PasswordOK(data.protected, password) THEN "decrypt"
    ELSE "ok"

\* pkcs12.load_key_and_certificates
load_key_and_certificates(data, password) ==
    IF data.kind # "pfx" THEN "format"
    ELSE IF ~PasswordOK(data.protected, password) THEN "decrypt"
    ELSE "ok"

\* the dict the three branches return
Credential(certificate, alg) ==
    [private_key |-> "pkcs8-pem",
     thumbprint |-> [alg |-> alg, der |-> certificate.id],
     public_certificate |-> certificate.id]

\* branch "if key_path": separate certificate and key files
load_separate(cert_file, password, key_file) ==
    LET c == load_pem_x509_certificate(cert_file)
        k == load_pem_private_key(key_file, password)
    IN  IF ~c.ok THEN Raise(c.err)
        ELSE IF k # "ok" THEN Raise(k)
        ELSE Return(Credential(c.cert, "sha1"))

\* inner try: the file holds the private key and the certificate as PEM
load_combined_pem(cert_file, password) ==
    LET k == load_pem_private_key(cert_file, password)
        c == load_pem_x509_certificate(cert_file)
    IN  IF k # "ok" THEN Raise(k)
        ELSE IF ~c.ok THEN Raise(c.err)
        ELSE Return(Credential(c.cert, c.cert.sig))

\* outer try: PFX first, and on any exception the combined PEM
load_single(cert_file, password) ==
    IF load_key_and_certificates(cert_file, password) = "ok"
    THEN Return(Credential(cert_file.certs[1], "sha1"))
    ELSE load_combined_pem(cert_file, password)

load_certificate(cert_file, password, key_file) ==
    IF key_file # NoFile
    THEN load_separate(cert_file, password, key_file)
    ELSE load_single(cert_file, password)

(* ------------------------- directory records --------------------------- *)

Absent == "<absent>"
Null == "<null>"

\* user records of the directory; a field may be missing or JSON null
User1 == [userPrincipalName |-> "u1@x.com", mail |-> "u1@x.com", id |-> "1"]
User2 == [userPrincipalName |-> "u2@x.com", mail |-> Null, id |-> Absent]

\* user.get(field, 'N/A')
Get(user, field) == IF user[field] = Absent THEN "N/A" ELSE user[field]

\* how an f-string renders a value
Fmt(v) == IF v = Null THEN "None" ELSE v

HTTP_OK == 200

\* statuses other than 200 that the directory answers with: the token was
\* rejected or has expired
NonSuccessStatuses == {401}

\* what requests.get can produce: a response, or an exception (status 0)
Responses ==
    [status : {HTTP_OK}, has_value : {TRUE},
     value : {<<>>, <<User1>>, <<User1, User2>>}]
    \cup [status : {HTTP_OK}, has_value : {FALSE}, value : {<<>>}]
    \cup [status : NonSuccessStatuses, has_value : {FALSE}, value : {<<>>}]

TransportError == [status |-> 0, has_value |-> FALSE, value |-> <<>>]

\* the part of search_user_by_name after requests.get returned
search_user_by_name(resp) ==
    IF resp.status = HTTP_OK
    THEN IF resp.has_value THEN resp.value ELSE <<>>
    ELSE <<>>

(* ------------------------------ results -------------------------------- *)

\* position of key in the dict d, 0 when absent
RECURSIVE DictFind(_, _, _)
DictFind(d, key, k) ==
    IF k > Len(d) THEN 0
    ELSE IF d[k].name = key THEN k ELSE DictFind(d, key, k + 1)

\* a dict that keeps the first value stored under a key
DictSet_FirstWins(d, key, found_users) ==
    IF DictFind(d, key, 1) = 0
    THEN Append(d, [name |-> key, users |-> found_users])
    ELSE d

\* results[key] = found_users on an insertion-ordered dict
DictSet(d, key, found_users) ==
    LET k == DictFind(d, key, 1)
    IN  IF k = 0 THEN Append(d, [name |-> key, users |-> found_users])
        ELSE [d EXCEPT ![k] = [name |-> key, users |-> found_users]]

DictKeys(d) == {d[k].name : k \in 1..Len(d)}

\* the three lists main fills from results.items()
RECURSIVE Successful(_)
Successful(d) ==
    IF d = <<>> THEN <<>>
    ELSE (IF Len(Head(d).users) = 1
          THEN <<[name |-> Head(d).name,
                  upn |-> Get(Head(d).users[1], "userPrincipalName"),
                  email |-> Get(Head(d).users[1], "mail"),
                  id |-> Get(Head(d).users[1], "id")]>>
          ELSE <<>>) \o Successful(Tail(d))

RECURSIVE Multiple(_)
Multiple(d) ==
    IF d = <<>> THEN <<>>
    ELSE (IF Len(Head(d).users) > 1
          THEN <<[name |-> Head(d).name, count |-> Len(Head(d).users),
                  users |-> Head(d).users]>>
          ELSE <<>>) \o Multiple(Tail(d))

RECURSIVE Failed(_)
Failed(d) ==
    IF d = <<>> THEN <<>>
    ELSE (IF Len(Head(d).users) = 0 THEN <<Head(d).name>> ELSE <<>>)
         \o Failed(Tail(d))

(* ------------------------------- export -------------------------------- *)

Row(name, upn, email, id, status) ==
    [first |-> split_1(name)[1], last |-> split_1(name)[2],
     upn |-> upn, email |-> email, id |-> id, status |-> status]

RECURSIVE FoundRows(_)
FoundRows(items) ==
    IF items = <<>> THEN <<>>
    ELSE <<Row(Head(items).name, Fmt(Head(items).upn), Fmt(Head(items).email),
               Fmt(Head(items).id), "Found")>> \o FoundRows(Tail(items))

RECURSIVE UserRows(_, _)
UserRows(name, users) ==
    IF users = <<>> THEN <<>>
    ELSE <<Row(name, Fmt(Get(Head(users), "userPrincipalName")),
               Fmt(Get(Head(users), "mail")), Fmt(Get(Head(users), "id")),
               "Multiple")>> \o UserRows(name, Tail(users))

\* an export that writes one row for a name with several matches
RECURSIVE MultipleRows_OnePerName(_)
MultipleRows_OnePerName(items) ==
    IF items = <<>> THEN <<>>
    ELSE UserRows(Head(items).name, <<Head(items).users[1]>>)
         \o MultipleRows_OnePerName(Tail(items))

RECURSIVE MultipleRows(_)
MultipleRows(items) ==
    IF items = <<>> THEN <<>>
    ELSE UserRows(Head(items).name, Head(items).users)
         \o MultipleRows(Tail(items))

RECURSIVE FailedRows(_)
FailedRows(names) ==
    IF names = <<>> THEN <<>>
    ELSE <<Row(Head(names), "", "", "", "Not Found")>>
         \o FailedRows(Tail(names))

\* an export that writes the failed lookups first
ExportRows_FailedFirst(found, multiple, failed) ==
    FailedRows(failed) \o FoundRows(found) \o MultipleRows(multiple)

\* the data rows written after the header line
ExportRows(found, multiple, failed) ==
    FoundRows(found) \o MultipleRows(multiple) \o FailedRows(failed)

(* ------------------------------- inputs -------------------------------- *)

\* lines of users_data, each already cut at '|'
Line1 == << <<SP>>, <<"A", SP>>, <<"B", SP, "C", SP>>, <<SP>> >>
Line2 == << <<SP>>, <<"A", SP, "B", SP>>, <<"C", SP>>, <<SP>> >>
Line3 == << <<SP>>, <<"A", SP>>, <<"C", SP>>, <<SP>> >>
Line4 == << <<SP>>, <<"A", SP>>, <<SP>> >>
Line5 == << <<SP>>, <<"B", SP>>, <<"C", SP>>, <<SP>> >>

LineSet == {Line1, Line2, Line3, Line4, Line5}

UsersData == UNION { [1..n -> LineSet] : n \in 1..MaxLines }

KeyFiles == {f \in Files : f.kind \in {"pem_key", "garbage"}}

NoArgs == [cert_file |-> NoFile, password |-> "none", key_file |-> NoFile]

LoadArgs ==
    [cert_file : Files, password : Passwords, key_file : KeyFiles \cup {NoFile}]

\* an entry of the request log
Query(first_name, last_name, token, resp, found_users) ==
    [first_name |-> first_name, last_name |-> last_name, token |-> token,
     status |-> resp.status, returned |-> found_users]

(* ------------------------------- main ---------------------------------- *)

Init ==
    /\ pc = "load"
    /\ args = NoArgs
    /\ cert_data = NoCred
    /\ error = "none"
    /\ access_token = "None"
    /\ tokenRequests = 0
    /\ users_data \in UsersData
    /\ idx = 1
    /\ results = <<>>
    /\ queries = <<>>
    /\ successful_lookups = <<>>
    /\ multiple_matches = <<>>
    /\ failed_lookups = <<>>
    /\ csv = [written |-> FALSE, rows |-> <<>>]

\* main up to the load: the key file is used when the path ends in
\* _cert.pem and the key file exists; a password is only read for .pfx/.p12
LoadCertificate ==
    /\ pc = "load"
    /\ \E cert_file \in Files, suffix \in {"_cert.pem", ".pfx", ".pem"},
          key_exists \in BOOLEAN, key_file \in KeyFiles, given \in Passwords :
          LET key_path == IF suffix = "_cert.pem" /\ key_exists
                          THEN key_file ELSE NoFile
              cert_password == IF suffix = ".pfx" THEN given ELSE "none"
              r == load_certificate(cert_file, cert_password, key_path)
          IN  /\ cert_data' = r.cred
              /\ error' = IF r.ok THEN "none" ELSE r.err
              /\ pc' = IF r.ok THEN "token" ELSE "failed"
    /\ UNCHANGED <<args, access_token, tokenRequests, users_data, idx, results,
                   queries, successful_lookups, multiple_matches,
                   failed_lookups, csv>>

\* a main that goes on to the search when no token was obtained
GetAccessToken_NoReturn ==
    /\ pc = "token"
    /\ tokenRequests' = tokenRequests + 1
    /\ \E granted \in BOOLEAN :
          /\ access_token' = IF granted THEN "token" ELSE "None"
          /\ error' = IF granted THEN error ELSE "authentication"
          /\ pc' = "search"
    /\ UNCHANGED <<args, cert_data, users_data, idx, results, queries,
                   successful_lookups, multiple_matches, failed_lookups, csv>>

\* get_access_token_with_certificate and the check of its result in main
GetAccessToken ==
    /\ pc = "token"
    /\ tokenRequests' = tokenRequests + 1
    /\ \E granted \in BOOLEAN :
          IF granted
          THEN /\ access_token' = "token"
               /\ pc' = "search"
               /\ error' = error
          ELSE /\ access_token' = "None"
               /\ pc' = "returned"
               /\ error' = "authentication"
    /\ UNCHANGED <<args, cert_data, users_data, idx, results, queries,
                   successful_lookups, multiple_matches,
                   failed_lookups, csv>>

\* a line of process_user_list with fewer than two parts
SkipLine ==
    /\ pc = "search"
    /\ idx <= Len(users_data)
    /\ Len(line_parts(users_data[idx])) < 2
    /\ idx' = idx + 1
    /\ UNCHANGED <<pc, args, cert_data, error, access_token, tokenRequests,
                   users_data, results, queries,
                   successful_lookups, multiple_matches, failed_lookups, csv>>

\* a search loop in which a non-success status ends the run
SearchUser_AbortOnStatus ==
    /\ pc = "search"
    /\ idx <= Len(users_data)
    /\ Len(line_parts(users_data[idx])) >= 2
    /\ LET parts == line_parts(users_data[idx])
       IN  \E resp \in Responses \cup {TransportError} :
              IF resp.status # HTTP_OK
              THEN /\ queries' = Append(queries,
                                        Query(parts[1], parts[2],
                                              access_token, resp, <<>>))
                   /\ pc' = "failed"
                   /\ error' = "transport"
                   /\ UNCHANGED <<idx, results>>
              ELSE /\ queries' = Append(queries,
                                        Query(parts[1], parts[2], access_token,
                                              resp, search_user_by_name(resp)))
                   /\ results' = DictSet(results, JoinName(parts[1], parts[2]),
                                         search_user_by_name(resp))
                   /\ idx' = idx + 1
                   /\ UNCHANGED <<pc, error>>
    /\ UNCHANGED <<args, cert_data, access_token, tokenRequests, users_data,
                   successful_lookups, multiple_matches, failed_lookups, csv>>

\* a search loop that repeats the request of a name after a non-success status
SearchUser_RetryOnStatus ==
    /\ pc = "search"
    /\ idx <= Len(users_data)
    /\ Len(line_parts(users_data[idx])) >= 2
    /\ Len(queries) <= MaxLines
    /\ LET parts == line_parts(users_data[idx])
       IN  \E resp \in Responses :
              /\ queries' = Append(queries,
                                   Query(parts[1], parts[2], access_token,
                                         resp, search_user_by_name(resp)))
              /\ results' = DictSet(results, JoinName(parts[1], parts[2]),
                                    search_user_by_name(resp))
              /\ idx' = IF resp.status = HTTP_OK THEN idx + 1 ELSE idx
    /\ UNCHANGED <<pc, error, args, cert_data, access_token, tokenRequests,
                   users_data, successful_lookups, multiple_matches,
                   failed_lookups, csv>>

\* one iteration of process_user_list that searches a name; queries is the
\* log of the requests sent, each with the status received (0: requests.get
\* raised) and the list search_user_by_name returned
SearchUser ==
    /\ pc = "search"
    /\ idx <= Len(users_data)
    /\ Len(line_parts(users_data[idx])) >= 2
    /\ LET parts == line_parts(users_data[idx])
           first_name == parts[1]
           last_name == parts[2]
       IN  \E resp \in Responses \cup {TransportError} :
              IF resp = TransportError
              THEN /\ queries' = Append(queries,
                                        Query(first_name, last_name,
                                              access_token, resp, <<>>))
                   /\ pc' = "failed"
                   /\ error' = "transport"
                   /\ UNCHANGED <<idx, results>>
              ELSE LET found_users == search_user_by_name(resp)
                   IN  /\ queries' = Append(queries,
                                            Query(first_name, last_name,
                                                  access_token, resp,
                                                  found_users))
                       /\ results' = DictSet(results,
                                             JoinName(first_name, last_name),
                                             found_users)
                       /\ idx' = idx + 1
                       /\ UNCHANGED <<pc, error>>
    /\ UNCHANGED <<args, cert_data, access_token, tokenRequests, users_data,
                   successful_lookups, multiple_matches, failed_lookups, csv>>

\* process_user_list returns; main sorts the results into its three lists
\* and writes upn_lookup_results.csv
SummariseAndExport ==
    /\ pc = "search"
    /\ idx > Len(users_data)
    /\ successful_lookups' = Successful(results)
    /\ multiple_matches' = Multiple(results)
    /\ failed_lookups' = Failed(results)
    /\ csv' = [written |-> TRUE,
               rows |-> ExportRows(Successful(results), Multiple(results),
                                   Failed(results))]
    /\ pc' = "done"
    /\ UNCHANGED <<args, cert_data, error, access_token, tokenRequests,
                   users_data, idx, results, queries>>

Next ==
    \/ LoadCertificate
    \/ GetAccessToken
    \/ SkipLine
    \/ SearchUser
    \/ SummariseAndExport

Spec == Init /\ [][Next]_vars

(* ----------------------- load_certificate alone ------------------------ *)

InitLoad ==
    /\ pc = "call"
    /\ args \in LoadArgs
    /\ cert_data = NoCred
    /\ error = "none"
    /\ access_token = "None"
    /\ tokenRequests = 0
    /\ users_data = <<>>
    /\ idx = 1
    /\ results = <<>>
    /\ queries = <<>>
    /\ successful_lookups = <<>>
    /\ multiple_matches = <<>>
    /\ failed_lookups = <<>>
    /\ csv = [written |-> FALSE, rows |-> <<>>]

CallLoadCertificate ==
    /\ pc = "call"
    /\ LET r == load_certificate(args.cert_file, args.password, args.key_file)
       IN  /\ cert_data' = r.cred
           /\ error' = IF r.ok THEN "none" ELSE r.err
           /\ pc' = IF r.ok THEN "loaded" ELSE "raised"
    /\ UNCHANGED <<args, access_token, tokenRequests, users_data, idx, results,
                   queries, successful_lookups, multiple_matches,
                   failed_lookups, csv>>

NextLoad == CallLoadCertificate

SpecLoad == InitLoad /\ [][NextLoad]_vars

(* ------------------------- helpers of the claims ----------------------- *)

\* the lookup keys of users_data, in input order
RECURSIVE KeysOf(_)
KeysOf(lines) ==
    IF lines = <<>> THEN <<>>
    ELSE (IF Len(line_parts(Head(lines))) >= 2
          THEN <<[first |-> line_parts(Head(lines))[1],
                  last |-> line_parts(Head(lines))[2]]>>
          ELSE <<>>) \o KeysOf(Tail(lines))

InputKeys == KeysOf(users_data)

KeyName(k) == JoinName(k.first, k.last)

QueryName(q) == JoinName(queries[q].first_name, queries[q].last_name)

\* the candidates the Report holds for a name
Lookup(name) == results[DictFind(results, name, 1)].users

\* process_user_list has returned its Report to main
RunReturned == pc = "done"

RowName(r) == JoinName(r.first, r.last)

RowsOf(name) == SelectSeq(csv.rows, LAMBDA r : RowName(r) = name)

Range(seq) == {seq[k] : k \in 1..Len(seq)}

NonSuccess(q) == queries[q].status \notin {HTTP_OK, 0}

\* no request for the same name was answered after request q
LastOfName(q) ==
    \A q2 \in (q + 1)..Len(queries) :
        QueryName(q2) # QueryName(q) \/ queries[q2].status = 0

RECURSIVE SumRows(_)
SumRows(d) ==
    IF d = <<>> THEN 0
    ELSE (IF Len(Head(d).users) = 0 THEN 1 ELSE Len(Head(d).users))
         + SumRows(Tail(d))

\* the rows of each name carry its candidates in candidate order
CandidateOrder ==
    \A k \in 1..Len(results) :
        Len(results[k].users) > 0 =>
            /\ Len(RowsOf(results[k].name)) = Len(results[k].users)
            /\ \A j \in 1..Len(results[k].users) :
                  RowsOf(results[k].name)[j].upn =
                      Fmt(Get(results[k].users[j], "userPrincipalName"))

Rank(status) ==
    CASE status = "Found" -> 1
      [] status = "Multiple" -> 2
      [] OTHER -> 3

(* -------------------------------- claims ------------------------------- *)

\* C1: a request answered with a non-success status does not end the run:
\* it returns no candidates, the name is recorded in the Report with zero
\* candidates, the loop moves on to the next line, and a Report that is
\* returned has an entry for every key of the input and lists the name among
\* the failed lookups (unless a later request for the same name overwrote it).
C1_NonSuccessStatusIsNotFatal ==
    /\ \A q \in 1..Len(queries) : NonSuccess(q) =>
          /\ queries[q].returned = <<>>
          /\ QueryName(q) \in DictKeys(results)
          /\ LastOfName(q) => Lookup(QueryName(q)) = <<>>
          /\ q = Len(queries) =>
                /\ pc \in {"search", "done"}
                /\ error = "none"
                /\ Len(KeysOf(SubSeq(users_data, 1, idx - 1))) = q
          /\ (pc = "done" /\ LastOfName(q)) =>
                /\ QueryName(q) \in Range(failed_lookups)
                /\ Len(RowsOf(QueryName(q))) = 1
    /\ RunReturned =>
          LET keys == InputKeys
          IN  /\ Len(queries) = Len(keys)
              /\ \A k \in 1..Len(keys) :
                    KeyName(keys[k]) \in DictKeys(results)

C1_Witness ==
    /\ pc = "done"
    /\ Len(queries) = 3
    /\ queries[1].status = HTTP_OK /\ queries[1].returned # <<>>
    /\ queries[2].status \in NonSuccessStatuses
    /\ queries[3].status = HTTP_OK /\ queries[3].returned # <<>>
    /\ Len(results) = 3

\* C2 as stated: the data rows follow the insertion order of the Report's
\* keys whatever their classification, and candidate order within a key.
C2_RowsInInsertionOrder ==
    csv.written =>
        /\ \A a, b \in 1..Len(csv.rows) : a < b =>
              DictFind(results, RowName(csv.rows[a]), 1)
                  <= DictFind(results, RowName(csv.rows[b]), 1)
        /\ CandidateOrder

\* C2 amended: the rows are grouped by status, Found first, then Multiple,
\* then Not Found; inside a group they follow the insertion order of the
\* Report's keys, and inside a key the candidate order.
C2_RowsGroupedByStatus ==
    csv.written =>
        /\ \A a, b \in 1..Len(csv.rows) : a < b =>
              \/ Rank(csv.rows[a].status) < Rank(csv.rows[b].status)
              \/ /\ Rank(csv.rows[a].status) = Rank(csv.rows[b].status)
                 /\ DictFind(results, RowName(csv.rows[a]), 1)
                       <= DictFind(results, RowName(csv.rows[b]), 1)
        /\ CandidateOrder

C2_Witness ==
    /\ csv.written
    /\ Len(results) = 3
    /\ Len(results[1].users) = 0
    /\ Len(results[2].users) = 2
    /\ Len(results[3].users) = 1
    /\ RowName(csv.rows[1]) = results[3].name

\* C3: when loading the credential fails no token request and no directory
\* request is ever made; when the single token request is rejected it is not
\* repeated, no directory request is made and no export is written; in both
\* cases the run has stopped.
C3_FatalErrorStopsTheRun ==
    /\ error \in {"format", "decrypt"} =>
          /\ pc = "failed"
          /\ cert_data = NoCred
          /\ tokenRequests = 0
          /\ queries = <<>>
          /\ ~csv.written
    /\ error = "authentication" =>
          /\ pc = "returned"
          /\ access_token = "None"
          /\ tokenRequests = 1
          /\ queries = <<>>
          /\ ~csv.written
    /\ pc \in {"failed", "returned"} => ~ENABLED Next

C3_Witness ==
    /\ error = "authentication"
    /\ pc = "returned"
    /\ tokenRequests = 1

\* C4 as stated: one row per key without candidates, with empty UPN, Email
\* and UserID and Status NotFound; one row per key with one candidate, Status
\* Found; n rows for a key with n > 1 candidates, Status Multiple; the number
\* of rows is the sum over the keys of max(1, candidates).
C4_RowsPerKey_NotFound ==
    csv.written =>
        /\ \A k \in 1..Len(results) :
              LET n == Len(results[k].users)
                  rows == RowsOf(results[k].name)
              IN  /\ Len(rows) = IF n = 0 THEN 1 ELSE n
                  /\ \A j \in 1..Len(rows) :
                        /\ rows[j].status =
                              IF n = 0 THEN "NotFound"
                              ELSE IF n = 1 THEN "Found" ELSE "Multiple"
                        /\ n = 0 => /\ rows[j].upn = ""
                                    /\ rows[j].email = ""
                                    /\ rows[j].id = ""
        /\ Len(csv.rows) = SumRows(results)
        /\ \A j \in 1..Len(csv.rows) :
              csv.rows[j].status \in {"Found", "Multiple", "NotFound"}

\* C4 amended: the same, with the Status of a key without candidates written
\* as "Not Found".
C4_RowsPerKey ==
    csv.written =>
        /\ \A k \in 1..Len(results) :
              LET n == Len(results[k].users)
                  rows == RowsOf(results[k].name)
              IN  /\ Len(rows) = IF n = 0 THEN 1 ELSE n
                  /\ \A j \in 1..Len(rows) :
                        /\ rows[j].status =
                              IF n = 0 THEN "Not Found"
                              ELSE IF n = 1 THEN "Found" ELSE "Multiple"
                        /\ n = 0 => /\ rows[j].upn = ""
                                    /\ rows[j].email = ""
                                    /\ rows[j].id = ""
        /\ Len(csv.rows) = SumRows(results)
        /\ \A j \in 1..Len(csv.rows) :
              csv.rows[j].status \in {"Found", "Multiple", "Not Found"}

C4_Witness ==
    /\ csv.written
    /\ Len(results) = 3
    /\ Len(results[1].users) = 1
    /\ Len(results[2].users) = 2
    /\ Len(results[3].users) = 0
    /\ Len(csv.rows) = 4

\* C5: every occurrence of a name is requested; the Report holds exactly one
\* entry for a requested name, with the candidates returned by the last
\* request for it; the Report has as many entries as the input has distinct
\* names.
C5_LastOccurrenceWins ==
    /\ \A q \in 1..Len(queries) : queries[q].status # 0 =>
          /\ Cardinality({k \in 1..Len(results) :
                             results[k].name = QueryName(q)}) = 1
          /\ LastOfName(q) => Lookup(QueryName(q)) = queries[q].returned
    /\ Len(results) =
          Cardinality({QueryName(q) :
                          q \in {x \in 1..Len(queries) : queries[x].status # 0}})
    /\ RunReturned =>
          LET keys == InputKeys
          IN  /\ Len(queries) = Len(keys)
              /\ Len(results) =
                    Cardinality({KeyName(keys[k]) : k \in 1..Len(keys)})

C5_Witness ==
    /\ pc = "done"
    /\ Len(queries) = 3
    /\ queries[1].first_name = queries[3].first_name
    /\ queries[1].last_name = queries[3].last_name
    /\ queries[1].returned = <<User1>>
    /\ queries[3].returned = <<User1, User2>>
    /\ Len(results) = 2
    /\ results[1].users = <<User1, User2>>

\* C8 as stated: a request on which the transport raises is handled like a
\* non-success status: the name is recorded with zero candidates and the run
\* goes on.
C8_TransportFailureIsNotFatal ==
    \A q \in 1..Len(queries) : queries[q].status = 0 =>
        /\ QueryName(q) \in DictKeys(results)
        /\ LastOfName(q) => Lookup(QueryName(q)) = <<>>
        /\ pc \in {"search", "done"}
        /\ error = "none"

\* C9: the requests are those of the input keys, one per key, in input
\* order and never repeated; each is made with the token of the single token
\* request; the outcome of a request is recorded before the next request is
\* made; a run that returns has made one request for every key.
C9_OneRequestPerKeyInOrder ==
    LET keys == InputKeys
    IN  /\ tokenRequests <= 1
        /\ Len(queries) <= Len(keys)
        /\ \A q \in 1..Len(queries) :
              /\ queries[q].first_name = keys[q].first
              /\ queries[q].last_name = keys[q].last
              /\ queries[q].token = "token"
              /\ tokenRequests = 1
              /\ q < Len(queries) =>
                    /\ queries[q].status # 0
                    /\ QueryName(q) \in DictKeys(results)
        /\ pc = "search" =>
              Len(queries) = Len(KeysOf(SubSeq(users_data, 1, idx - 1)))
        /\ RunReturned => Len(queries) = Len(keys)

C9_Witness ==
    /\ pc = "done"
    /\ Len(queries) = 3
    /\ queries[1].status \in NonSuccessStatuses
    /\ queries[2].status \in NonSuccessStatuses
    /\ QueryName(1) # QueryName(2)
    /\ QueryName(2) # QueryName(3)

\* C10 as stated: every row written for an input key has the key's given
\* name as FirstName and its surname as LastName, and two keys with different
\* (given name, surname) pairs never share a Report entry.
C10_NameColumnsRoundTrip ==
    csv.written =>
        /\ \A k \in 1..Len(InputKeys) : \A j \in 1..Len(csv.rows) :
              RowName(csv.rows[j]) = KeyName(InputKeys[k]) =>
                  /\ csv.rows[j].first = InputKeys[k].first
                  /\ csv.rows[j].last = InputKeys[k].last
        /\ \A k1, k2 \in 1..Len(InputKeys) :
              InputKeys[k1] # InputKeys[k2] =>
                  KeyName(InputKeys[k1]) # KeyName(InputKeys[k2])

(* ------------------- claims about load_certificate --------------------- *)

\* a well-formed fixture of one of the three encodings
SeparateFixture ==
    /\ args.cert_file.kind = "pem_cert"
    /\ args.key_file.kind = "pem_key"

PfxFixture == args.cert_file.kind = "pfx" /\ args.key_file = NoFile

CombinedFixture == args.cert_file.kind = "pem_both" /\ args.key_file = NoFile

\* the private key of the fixture is encrypted and the password is not its
WrongPassword ==
    /\ args.password = "wrong"
    /\ \/ SeparateFixture /\ args.key_file.protected
       \/ (PfxFixture \/ CombinedFixture) /\ args.cert_file.protected

\* C6 as stated: for each of the three encodings a wrong password ends in a
\* decrypt error, not a format error and not success, and a failing load
\* returns no Credential.
C6_WrongPasswordIsDecryptError ==
    /\ (pc # "call" /\ WrongPassword) => (pc = "raised" /\ error = "decrypt")
    /\ pc = "raised" => cert_data = NoCred

\* C7 as stated: a successful load returns a fingerprint of 40 hex digits
\* taken over the certificate returned as public certificate, with SHA-1 (on
\* the combined-PEM path with the certificate's signature hash algorithm),
\* whatever the signature algorithm of the certificate.
C7_FingerprintIs40HexOfReturnedCertificate ==
    (pc = "loaded" /\ (SeparateFixture \/ PfxFixture \/ CombinedFixture)) =>
        /\ HexLen(cert_data.thumbprint.alg) = 40
        /\ cert_data.thumbprint.der = cert_data.public_certificate
        /\ cert_data.public_certificate = args.cert_file.certs[1].id
        /\ cert_data.thumbprint.alg =
              IF CombinedFixture THEN args.cert_file.certs[1].sig ELSE "sha1"

====
